---- MODULE Spec2Model ----
(***************************************************************************)
(* A model of the grumble voice server core: the per-client connection     *)
(* state machine (client.go), the UDP packet codec (mumbleproto), the      *)
(* lock file (blobstore) and the freeze-to-file routine (freeze.go).       *)
(***************************************************************************)
EXTENDS Integers, Sequences, FiniteSets, TLC

\* ------------------------------------------------------------------ bounds
\* How many times another task (a handler, the ping timer, shutdown) calls
\* Disconnect / ForceDisconnect / Panic / Panicf on the client.
MaxExtCalls == 2
\* How many control messages the peer sends once the client is Ready.
MaxMsgs == 2
\* How many processes race for the lock file.
NumProcs == 2
\* How many times the server freezes itself to disk.
MaxFreezes == 3
\* The longest datagram drawn byte by byte from the alphabet.
MaxLen == 4
\* How many datagrams the UDP socket reader hands to the client.
MaxDatagrams == 1
\* the longest list BanWrite is called with
MaxBans == 2
\* the calls made in one transaction
MaxBanOps == 3

\* ------------------------------------------------- client lifecycle states
StateClientConnected == 0
StateServerSentVersion == 1
StateClientSentVersion == 2
StateClientAuthenticated == 3
StateClientReady == 4

\* The tasks that may call client.disconnect: the TLS receive loop, the
\* authentication handler goroutine, one other server task, and the UDP
\* receive loop.
Tasks == {"recv", "auth", "ext", "udp"}

\* client.session, the session id the server gave the client
session == 5
\* client.crypt.Overhead(): the bytes encryption adds to a datagram
Overhead == 4
\* mumbleproto.MessageUDPTunnel, the kind of a control frame that carries
\* a datagram
MessageUDPTunnel == 1

\* The datagrams a peer sends, through the tunnel or to the UDP socket:
\* an empty one; a legacy ping without its body; a length-delimited ping;
\* legacy CELT voice whose first byte names target 31; length-delimited
\* audio that names sender session 9, for target 0 and for target 31.
\* Each framing takes the datagrams of the other for ill-formed ones.
Payloads ==
  {<<>>, <<32, 1>>, <<1, 8, 7>>, <<31, 0, 3, 1, 170>>,
   <<0, 24, 9, 42, 1, 8>>, <<0, 8, 31, 24, 9, 42, 1, 8>>}

\* What tlsRecvLoop holds between a read and the hand-over.
NoMsg == [kind |-> "none", id |-> 0, buf |-> <<>>]

\* The Ready-state control messages of a peer: a UDPTunnel message with
\* its payload, or a message of another kind.
Messages(payloads) ==
  {[kind |-> "msg", id |-> 0, buf |-> <<>>]}
    \cup {[kind |-> "tunnel", id |-> 0, buf |-> b] : b \in payloads}

VARIABLES
  \* ---- Client fields
  state,          \* client.state
  disconnected,   \* client.disconnected
  clientReady,    \* client.clientReady: "nil", "open" or "closed"
  udprecv,        \* client.udprecv: "open" or "closed"
  conn,           \* client.conn: "open" or "closed"
  udp,            \* client.udp
  legacyPeer,     \* the peer or the server lacks the length-delimited format
  \* ---- effects on the server and the transport
  removed,        \* the kicked flags of the calls of server.RemoveClient
  connCloses,     \* calls of client.conn.Close()
  codecUpdates,   \* calls of server.updateCodecVersions(nil)
  versionWrites,  \* Version messages written by tlsRecvLoop
  nread,          \* control messages read from the peer
  incoming,       \* server.incoming: the messages placed on it, by number
  tunnelWrites,   \* UDPTunnel frames written to the control connection
  udpSends,       \* datagrams sent to client.udpaddr
  voicebroadcast, \* server.voicebroadcast: the packets placed on it
  \* ---- control state of the goroutines
  pcRecv,         \* position of tlsRecvLoop
  pending,        \* the message tlsRecvLoop has read and not yet handed on
  pcAuth,         \* position of handleAuthenticate / finishAuthenticate
  pcUdp,          \* position of udpRecvLoop
  udpBuf,         \* the buffer udpRecvLoop took from udprecv
  udpVia,         \* how that buffer came: "tunnel" or "socket"
  udpPkt,         \* ParseUDPPacket's results on it: [pkt, legacy]
  udpOut,         \* the bytes udpRecvLoop hands to SendUDP
  udpExit,        \* why udpRecvLoop returned, "none" while it runs
  sockCount,      \* datagrams the UDP socket reader has handed over
  offered,        \* the datagrams the peer sends in this run
  dpc,            \* position of each task inside client.disconnect
  dkick,          \* the kicked argument of each task's call
  extCalls,       \* calls issued by the other task so far
  crashed,        \* a goroutine panicked: the Go runtime ends the process
  panicked,       \* the run-time error of that panic, "none" before
  \* ---- history
  callEnded,      \* some call of disconnect has returned or died
  overlap         \* two calls of disconnect were in progress at once

cvars == <<state, disconnected, clientReady, udprecv, conn, udp, legacyPeer,
           removed, connCloses, codecUpdates, versionWrites, nread,
           incoming, tunnelWrites, udpSends, voicebroadcast, pcRecv, pending,
           pcAuth, pcUdp, udpBuf, udpVia, udpPkt, udpOut, udpExit, sockCount,
           offered, dpc, dkick, extCalls, crashed, panicked, callEnded,
           overlap>>

\* ---- the lock file (blobstore): see AcquireLockFile below
VARIABLES
  lockName,      \* the inode the lock file's name refers to, or "absent"
  content,       \* what each inode holds: "none", "empty" or a pid
  lpc,           \* position of each process in AcquireLockFile
  lread,         \* the content each process read from the lock file
  released       \* ReleaseLockFile has been called

lvars == <<lockName, content, lpc, lread, released>>

\* ---- the freeze of the server to disk: see freezeToFile below
VARIABLES
  files,         \* the files of <DataDir>/servers/<id>/, by name
  freezelog,     \* server.freezelog: "open" or "nil"
  fpc,           \* position of freezeToFile
  freezes,       \* calls of freezeToFile so far: the snapshot's number
  fprev,         \* what main.fz held when the call began
  fresult,       \* how the last call ended: "none", "ok", "err", "crash"
  frozen         \* some call has returned nil

fvars == <<files, freezelog, fpc, freezes, fprev, fresult, frozen>>

\* ---- the UDP codec at work on one datagram
VARIABLES
  dgram,         \* the datagram
  backing,       \* what its backing array holds behind it
  legacyClient,  \* the isLegacy argument of ParseUDPPacket
  kpc,           \* "idle", "input", "parsed", "emitted", "reparsed"
  parsed,        \* ParseUDPPacket's results: [pkt, legacy]
  out,           \* the packet's emission
  reparsed       \* ParseUDPPacket's results on the emission

kvars == <<dgram, backing, legacyClient, kpc, parsed, out, reparsed>>

\* ---- the ban table of the database: see BanRead and BanWrite below
VARIABLES
  banRows,       \* the rows of table "bans", in the order of their insertion
  banWritten,    \* the last BanWrite: its argument and whether it succeeded
  banRead,       \* the last BanRead: its arguments and what it returned
  banOps         \* calls made in the transaction so far

bvars == <<banRows, banWritten, banRead, banOps>>

nonClient == <<lvars, fvars, kvars, bvars>>

\* The client's UDP side but for the loop's own position and buffer.
udpIo == <<legacyPeer, tunnelWrites, udpSends, voicebroadcast, udpVia, udpPkt,
           udpOut, udpExit, sockCount, offered>>

vars == <<cvars, lvars, fvars, kvars, bvars>>

\* ------------------------------------ mumbleproto: the UDP packet codec
UDPPacketAudio == 0
UDPPacketPing == 1

CodecOpus == 0
CodecCELTAlpha == 1
CodecCELTBeta == 2
CodecSpeex == 3

TargetRegularSpeech == 0
TargetServerLoopback == 31

\* The kinds of the legacy framing, the top three bits of the first byte.
UDPMessageVoiceCELTAlpha == 0
UDPMessagePing == 1
UDPMessageVoiceSpeex == 2
UDPMessageVoiceCELTBeta == 3
UDPMessageVoiceOpus == 4

\* A UDPPacket value.  kind is "ping" for a *PingPacket and "audio" for an
\* *AudioPacket; "nilPing" and "nilAudio" are the nil pointers of the two
\* types, "nil" is the nil interface and "panic" a run-time panic of the
\* parser.  A float is held as the four bytes that carry it.
Packet(kind) ==
  [kind |-> kind,
   UsedCodec |-> 0, TargetOrContext |-> 0, Payload |-> <<>>,
   HeaderCase |-> 0, HeaderVal |-> 0, SenderSession |-> 0, FrameNumber |-> 0,
   OpusData |-> <<>>, PositionalData |-> <<>>,
   VolumeAdjustment |-> <<0, 0, 0, 0>>, IsTerminator |-> FALSE,
   Timestamp |-> 0, RequestExtendedInformation |-> FALSE,
   ServerVersionV2 |-> 0, UserCount |-> 0, MaxUserCount |-> 0,
   MaxBandwidthPerUser |-> 0,
   unknown |-> <<>>]

RECURSIVE Zeros(_)
Zeros(n) == IF n = 0 THEN <<>> ELSE <<0>> \o Zeros(n - 1)

\* binary.LittleEndian: the number a byte sequence carries, and back
RECURSIVE LittleEndian(_)
LittleEndian(b) ==
  IF b = <<>> THEN 0 ELSE Head(b) + 256 * LittleEndian(Tail(b))

RECURSIVE LittleEndianBytes(_, _)
LittleEndianBytes(v, n) ==
  IF n = 0 THEN <<>> ELSE <<v % 256>> \o LittleEndianBytes(v \div 256, n - 1)

RECURSIVE Flatten(_)
Flatten(ss) == IF ss = <<>> THEN <<>> ELSE Head(ss) \o Flatten(Tail(ss))

\* ---- packetdata: a cursor over a byte slice.  A cursor is its offset and
\* its validity flag; a read that overruns returns 0 and clears the flag.
NewCursor == [off |-> 0, ok |-> TRUE]

\* Next8: <<the byte, the cursor after it>>
Next8(buf, c) ==
  IF c.off < Len(buf)
    THEN <<buf[c.off + 1], [c EXCEPT !.off = @ + 1]>>
    ELSE <<0, [c EXCEPT !.ok = FALSE]>>

\* n bytes, the most significant first
RECURSIVE NextBigEndian(_, _, _)
NextBigEndian(buf, c, n) ==
  IF n = 0 THEN <<0, c>>
  ELSE LET b == Next8(buf, c)
           r == NextBigEndian(buf, b[2], n - 1)
       IN <<b[1] * (256 ^ (n - 1)) + r[1], r[2]>>

Left(buf, c) == Len(buf) - c.off

Skip(buf, c, n) ==
  IF Left(buf, c) >= n THEN [c EXCEPT !.off = @ + n] ELSE [c EXCEPT !.ok = FALSE]

\* The variable-length integer of the legacy framing: <<value, cursor>>
RECURSIVE GetVarint(_, _)
GetVarint(buf, c) ==
  LET b == Next8(buf, c)
      v == b[1]
  IN IF v < 128 THEN <<v, b[2]>>
     ELSE IF v < 192 THEN
       LET r == NextBigEndian(buf, b[2], 1) IN <<(v % 64) * 256 + r[1], r[2]>>
     ELSE IF v < 224 THEN
       LET r == NextBigEndian(buf, b[2], 2) IN <<(v % 32) * 65536 + r[1], r[2]>>
     ELSE IF v < 240 THEN
       LET r == NextBigEndian(buf, b[2], 3) IN <<(v % 16) * 16777216 + r[1], r[2]>>
     ELSE IF v \div 4 = 60 THEN NextBigEndian(buf, b[2], 4)
     ELSE IF v \div 4 = 61 THEN NextBigEndian(buf, b[2], 8)
     ELSE IF v \div 4 = 62 THEN
       LET r == GetVarint(buf, b[2]) IN <<(2 ^ 64 - 1) - r[1], r[2]>>
     ELSE <<(2 ^ 64 - 1) - (v % 4), b[2]>>

GetUint64(buf, c) == GetVarint(buf, c)

GetUint16(buf, c) ==
  LET r == GetVarint(buf, c) IN <<r[1] % 65536, r[2]>>

\* GetFloat32: <<the four bytes of the float, cursor>>
GetFloat32(buf, c) ==
  IF Left(buf, c) >= 4
    THEN <<SubSeq(buf, c.off + 1, c.off + 4), [c EXCEPT !.off = @ + 4]>>
    ELSE <<<<0, 0, 0, 0>>, [c EXCEPT !.ok = FALSE]>>

\* PutUint32: the bytes the variable-length integer takes
PutUint32(v) ==
  IF v < 128 THEN <<v>>
  ELSE IF v < 16384 THEN <<128 + (v \div 256), v % 256>>
  ELSE IF v < 2097152 THEN <<192 + (v \div 65536), (v \div 256) % 256, v % 256>>
  ELSE IF v < 268435456 THEN
    <<224 + (v \div 16777216), (v \div 65536) % 256, (v \div 256) % 256, v % 256>>
  ELSE <<240, (v \div 16777216) % 256, (v \div 65536) % 256,
         (v \div 256) % 256, v % 256>>

\* ---- the serialized form of PingUDP and AudioUDP (protocol buffers)
\* A base-128 integer at b[i]: <<value, index after it, ok>>
RECURSIVE ConsumeVarint(_, _)
ConsumeVarint(b, i) ==
  IF i > Len(b) THEN <<0, i, FALSE>>
  ELSE IF b[i] < 128 THEN <<b[i], i + 1, TRUE>>
  ELSE LET r == ConsumeVarint(b, i + 1)
       IN <<(b[i] % 128) + 128 * r[1], r[2], r[3]>>

RECURSIVE AppendVarint(_)
AppendVarint(v) ==
  IF v < 128 THEN <<v>> ELSE <<128 + (v % 128)>> \o AppendVarint(v \div 128)

\* The value of a field of wire type w at b[i]: a number for type 0, bytes
\* for types 1 (8 bytes), 2 (length and bytes) and 5 (4 bytes).  The other
\* wire types (groups, and 6 and 7, which are no types) are refused; no
\* datagram drawn below opens a group.
ConsumeFieldValue(b, i, w) ==
  LET none == [v |-> 0, bytes |-> <<>>, next |-> i, ok |-> FALSE]
      fixed(n) == IF i + n - 1 <= Len(b)
                    THEN [v |-> 0, bytes |-> SubSeq(b, i, i + n - 1),
                          next |-> i + n, ok |-> TRUE]
                    ELSE none
  IN IF w = 0 THEN
       LET r == ConsumeVarint(b, i)
       IN [v |-> r[1], bytes |-> <<>>, next |-> r[2], ok |-> r[3]]
     ELSE IF w = 1 THEN fixed(8)
     ELSE IF w = 5 THEN fixed(4)
     ELSE IF w = 2 THEN
       LET r == ConsumeVarint(b, i)
       IN IF r[3] /\ r[2] + r[1] - 1 <= Len(b)
            THEN [v |-> 0, bytes |-> SubSeq(b, r[2], r[2] + r[1] - 1),
                  next |-> r[2] + r[1], ok |-> TRUE]
            ELSE none
     ELSE none

\* One field of a PingUDP: a field of another number or wire type is kept
\* with the unknown fields.
SetPingField(m, f, w, val, raw) ==
  IF w = 0 /\ f = 1 THEN [m EXCEPT !.Timestamp = val.v]
  ELSE IF w = 0 /\ f = 2 THEN [m EXCEPT !.RequestExtendedInformation = (val.v # 0)]
  ELSE IF w = 0 /\ f = 3 THEN [m EXCEPT !.ServerVersionV2 = val.v]
  ELSE IF w = 0 /\ f = 4 THEN [m EXCEPT !.UserCount = val.v]
  ELSE IF w = 0 /\ f = 5 THEN [m EXCEPT !.MaxUserCount = val.v]
  ELSE IF w = 0 /\ f = 6 THEN [m EXCEPT !.MaxBandwidthPerUser = val.v]
  ELSE [m EXCEPT !.unknown = @ \o raw]

\* One field of an AudioUDP; packed floats of a length that is no multiple
\* of four are an error, which the kind "nilAudio" tells.
SetAudioField(m, f, w, val, raw) ==
  IF w = 0 /\ f \in {1, 2} THEN [m EXCEPT !.HeaderCase = f, !.HeaderVal = val.v]
  ELSE IF w = 0 /\ f = 3 THEN [m EXCEPT !.SenderSession = val.v]
  ELSE IF w = 0 /\ f = 4 THEN [m EXCEPT !.FrameNumber = val.v]
  ELSE IF w = 2 /\ f = 5 THEN [m EXCEPT !.OpusData = val.bytes]
  ELSE IF w = 2 /\ f = 6 THEN
    IF Len(val.bytes) % 4 # 0 THEN Packet("nilAudio")
    ELSE [m EXCEPT !.PositionalData =
            @ \o [k \in 1..(Len(val.bytes) \div 4) |->
                    SubSeq(val.bytes, 4 * k - 3, 4 * k)]]
  ELSE IF w = 5 /\ f = 6 THEN [m EXCEPT !.PositionalData = Append(@, val.bytes)]
  ELSE IF w = 5 /\ f = 7 THEN [m EXCEPT !.VolumeAdjustment = val.bytes]
  ELSE IF w = 0 /\ f = 16 THEN [m EXCEPT !.IsTerminator = (val.v # 0)]
  ELSE [m EXCEPT !.unknown = @ \o raw]

\* proto.Unmarshal into m from b[i]: the message, or the nil of its type
\* when the bytes are no serialized message.
RECURSIVE Unmarshal(_, _, _, _)
Unmarshal(b, i, m, nilKind) ==
  IF i > Len(b) THEN m
  ELSE
    LET key == ConsumeVarint(b, i)
        f == key[1] \div 8
        w == key[1] % 8
    IN IF ~key[3] \/ f = 0 THEN Packet(nilKind)
       ELSE
         LET val == ConsumeFieldValue(b, key[2], w)
         IN IF ~val.ok THEN Packet(nilKind)
            ELSE
              LET raw == SubSeq(b, i, val.next - 1)
                  m2 == IF nilKind = "nilPing"
                          THEN SetPingField(m, f, w, val, raw)
                          ELSE SetAudioField(m, f, w, val, raw)
              IN IF m2.kind = nilKind THEN m2
                 ELSE Unmarshal(b, val.next, m2, nilKind)

Field(key, v) == IF v = 0 THEN <<>> ELSE <<key>> \o AppendVarint(v)

\* proto.Marshal(&p.PingUDP): the fields in the order of their numbers,
\* those of value zero left out, then the unknown fields
MarshalPing(p) ==
  Field(8, p.Timestamp)
  \o (IF p.RequestExtendedInformation THEN <<16, 1>> ELSE <<>>)
  \o Field(24, p.ServerVersionV2)
  \o Field(32, p.UserCount)
  \o Field(40, p.MaxUserCount)
  \o Field(48, p.MaxBandwidthPerUser)
  \o p.unknown

\* proto.Marshal(&p.AudioUDP)
MarshalAudio(p) ==
  (IF p.HeaderCase = 0 THEN <<>>
   ELSE <<8 * p.HeaderCase>> \o AppendVarint(p.HeaderVal))
  \o Field(24, p.SenderSession)
  \o Field(32, p.FrameNumber)
  \o (IF p.OpusData = <<>> THEN <<>>
      ELSE <<42>> \o AppendVarint(Len(p.OpusData)) \o p.OpusData)
  \o (IF p.PositionalData = <<>> THEN <<>>
      ELSE <<50>> \o AppendVarint(4 * Len(p.PositionalData))
           \o Flatten(p.PositionalData))
  \o (IF p.VolumeAdjustment = <<0, 0, 0, 0>> THEN <<>> ELSE <<61>> \o p.VolumeAdjustment)
  \o (IF p.IsTerminator THEN <<128, 1, 1>> ELSE <<>>)
  \o p.unknown

\* ---- the packets' own emissions
\* PingPacket.LegacyData
PingLegacyData(p) ==
  <<UDPMessagePing * 32>> \o LittleEndianBytes(0, 4)
                          \o LittleEndianBytes(p.Timestamp, 8)

\* PingPacket.ProtobufData
PingProtobufData(p) == <<UDPPacketPing>> \o MarshalPing(p)

LegacyKind(codec) ==
  IF codec = CodecCELTAlpha THEN UDPMessageVoiceCELTAlpha
  ELSE IF codec = CodecCELTBeta THEN UDPMessageVoiceCELTBeta
  ELSE IF codec = CodecSpeex THEN UDPMessageVoiceSpeex
  ELSE UDPMessageVoiceOpus

\* AudioPacket.LegacyData: the kind in the top bits of the first byte, the
\* sender session, the frame number, then the payload, which an Opus packet
\* precedes with its length and terminator bit
AudioLegacyData(p) ==
  <<LegacyKind(p.UsedCodec) * 32>>
  \o PutUint32(p.SenderSession)
  \o PutUint32(p.FrameNumber)
  \o (IF p.UsedCodec = CodecOpus
        THEN PutUint32(Len(p.Payload) + (IF p.IsTerminator THEN 8192 ELSE 0))
        ELSE <<>>)
  \o p.Payload

\* the tag AudioPacket.ProtobufData writes in buffer[0]
AudioProtobufTag == UDPPacketPing

\* AudioPacket.ProtobufData
AudioProtobufData(p) == <<AudioProtobufTag>> \o MarshalAudio(p)

LegacyData(p) ==
  IF p.kind = "ping" THEN PingLegacyData(p) ELSE AudioLegacyData(p)

ProtobufData(p) ==
  IF p.kind = "ping" THEN PingProtobufData(p) ELSE AudioProtobufData(p)

\* What lies behind the emission in its backing array: LegacyData of an
\* audio packet returns a prefix of a zeroed buffer of 32+len(Payload) bytes
EmissionSpare(p, legacy) ==
  IF legacy /\ p.kind = "audio"
    THEN Zeros(32 + Len(p.Payload) - Len(AudioLegacyData(p)))
    ELSE <<>>

\* ---- the parsers
parsePingPacketLegacy(data) ==
  IF Len(data) # 12 \/ SubSeq(data, 1, 4) # <<0, 0, 0, 0>>
    THEN Packet("nilPing")
    ELSE [Packet("ping") EXCEPT
            !.Timestamp = LittleEndian(SubSeq(data, 5, 12)),
            !.RequestExtendedInformation = TRUE]

parsePingPacketProtobuf(data) == Unmarshal(data, 1, Packet("ping"), "nilPing")

\* The chain of TOC bytes of a CELT or Speex payload (lines 326-340):
\* [c: the cursor after it, size: the frames' lengths added, term]
RECURSIVE FrameChain(_, _, _, _)
FrameChain(buf, c, size, term) ==
  LET b == Next8(buf, c)
      frameSize == b[1] % 128
      c2 == Skip(buf, b[2], frameSize)
      term2 == term \/ frameSize = 0
  IN IF b[1] < 128 \/ ~c2.ok
       THEN [c |-> c2, size |-> size + frameSize, term |-> term2]
       ELSE FrameChain(buf, c2, size + frameSize, term2)

\* lines 355-361: the three floats behind the payload
PositionalEnd(buf, p1, p2) ==
  <<p1[1], p2[1], GetFloat32(buf, p2[2])[1]>>

PositionalOf(buf, p1) == PositionalEnd(buf, p1, GetFloat32(buf, p1[2]))

\* lines 349-368: the packet, once the frames have been walked.  c is the
\* cursor, offset what line 353 slices from; array is data with what its
\* backing array holds behind it, so a slice that ends beyond it panics.
AudioOf(data, array, codec, frameNumber, c, offset, payloadSize, term) ==
  IF ~c.ok THEN Packet("nilAudio")
  ELSE IF 1 + offset + payloadSize > Len(array) THEN Packet("panic")
  ELSE IF Left(Tail(data), c) # 12 /\ Left(Tail(data), c) > 0
    THEN Packet("nilAudio")
  ELSE [Packet("audio") EXCEPT
          !.UsedCodec = codec,
          !.TargetOrContext = data[1] % 32,
          !.FrameNumber = frameNumber,
          !.IsTerminator = term,
          !.Payload = SubSeq(array, 1 + offset + 1, 1 + offset + payloadSize),
          !.PositionalData =
             IF Left(Tail(data), c) = 12
               THEN PositionalOf(Tail(data), GetFloat32(Tail(data), c))
               ELSE <<>>]

\* lines 316-340: CELT and Speex; offset is taken before the frames
AudioOfChain(data, array, codec, fr, chain) ==
  AudioOf(data, array, codec, fr[1], chain.c, fr[2].off, chain.size, chain.term)

\* lines 341-346: Opus; offset is taken after the payload has been skipped
AudioOfOpus(data, array, codec, fr, sz) ==
  AudioOf(data, array, codec, fr[1],
          Skip(Tail(data), sz[2], sz[1] % 8192),
          Skip(Tail(data), sz[2], sz[1] % 8192).off,
          sz[1] % 8192, (sz[1] \div 8192) % 2 = 1)

\* lines 309-347, once the frame number has been read
AudioFrames(data, array, codec, fr) ==
  IF codec = CodecOpus
    THEN AudioOfOpus(data, array, codec, fr, GetUint16(Tail(data), fr[2]))
    ELSE AudioOfChain(data, array, codec, fr,
           FrameChain(Tail(data), fr[2], 0, FALSE))

\* parseAudioPacketLegacy(data, codec); spare is what the backing array
\* holds behind data, up to its capacity
parseAudioPacketLegacy(data, spare, codec) ==
  IF Len(data) < 3 THEN Packet("nilAudio")
  ELSE AudioFrames(data, data \o spare, codec, GetUint64(Tail(data), NewCursor))

parseAudioPacketProtobuf(data) ==
  LET audio == Unmarshal(data, 1, Packet("audio"), "nilAudio")
  IN IF audio.kind = "nilAudio" \/ audio.OpusData = <<>> THEN Packet("nilAudio")
     ELSE [audio EXCEPT
             !.TargetOrContext = (IF audio.HeaderCase = 1 THEN audio.HeaderVal ELSE 0) % 256,
             !.UsedCodec = CodecOpus,
             !.Payload = audio.OpusData]

\* lines 250-261: the codec of a voice kind
CodecOfKind(kind) ==
  IF kind = UDPMessageVoiceSpeex THEN CodecSpeex
  ELSE IF kind = UDPMessageVoiceCELTAlpha THEN CodecCELTAlpha
  ELSE IF kind = UDPMessageVoiceCELTBeta THEN CodecCELTBeta
  ELSE CodecOpus

VoiceKinds ==
  {UDPMessageVoiceSpeex, UDPMessageVoiceCELTAlpha, UDPMessageVoiceCELTBeta,
   UDPMessageVoiceOpus}

\* lines 250-262: the switch on the kind in the first byte's top bits
ParseLegacyKind(data, spare, kind) ==
  IF kind = UDPMessagePing
    THEN [pkt |-> parsePingPacketLegacy(Tail(data)), legacy |-> TRUE]
  ELSE IF kind \in VoiceKinds
    THEN [pkt |-> parseAudioPacketLegacy(Tail(data), spare, CodecOfKind(kind)),
          legacy |-> TRUE]
  ELSE [pkt |-> Packet("nil"), legacy |-> TRUE]

\* lines 242-262: the legacy rules
ParseLegacy(data, spare) ==
  IF Len(data) \in {12, 24} /\ parsePingPacketLegacy(data).kind = "ping"
    THEN [pkt |-> parsePingPacketLegacy(data), legacy |-> TRUE]
    ELSE ParseLegacyKind(data, spare, (data[1] \div 32) % 8)

\* ParseUDPPacket(data, isLegacy): the packet and the legacy result
ParseUDPPacket(data, spare, isLegacy) ==
  IF Len(data) < 1 THEN [pkt |-> Packet("nil"), legacy |-> isLegacy]
  ELSE IF isLegacy THEN
    IF data[1] = UDPPacketPing
      THEN [pkt |-> parsePingPacketProtobuf(Tail(data)), legacy |-> FALSE]
      ELSE ParseLegacy(data, spare)
  ELSE IF data[1] = UDPPacketPing
    THEN [pkt |-> parsePingPacketProtobuf(Tail(data)), legacy |-> FALSE]
  ELSE IF data[1] = UDPPacketAudio
    THEN [pkt |-> parseAudioPacketProtobuf(Tail(data)), legacy |-> FALSE]
  ELSE [pkt |-> Packet("nil"), legacy |-> isLegacy]

NothingParsed == [pkt |-> Packet("nil"), legacy |-> TRUE]

\* ------------------------------------------------------------- client.go
ClientInit ==
  /\ state = StateClientConnected
  /\ disconnected = FALSE
  /\ clientReady = "nil"
  /\ udprecv = "open"
  /\ conn = "open"
  /\ udp = FALSE
  /\ legacyPeer = TRUE
  /\ removed = <<>>
  /\ connCloses = 0
  /\ codecUpdates = 0
  /\ versionWrites = 0
  /\ nread = 0
  /\ incoming = <<>>
  /\ tunnelWrites = <<>>
  /\ udpSends = <<>>
  /\ voicebroadcast = <<>>
  /\ pcRecv = "ifReady"
  /\ pending = NoMsg
  /\ pcAuth = "idle"
  /\ pcUdp = "range"
  /\ udpBuf = <<>>
  /\ udpVia = "none"
  /\ udpPkt = NothingParsed
  /\ udpOut = <<>>
  /\ udpExit = "none"
  /\ sockCount = 0
  /\ dpc = [t \in Tasks |-> "idle"]
  /\ dkick = [t \in Tasks |-> FALSE]
  /\ extCalls = 0
  /\ crashed = FALSE
  /\ panicked = "none"
  /\ callEnded = FALSE
  /\ overlap = FALSE

\* A task is inside client.disconnect.
InCall(t) == dpc[t] \notin {"idle", "ret"}

\* Entering client.disconnect(kicked) from task t.
Enter(t, kicked) ==
  /\ dpc' = [dpc EXCEPT ![t] = "chk"]
  /\ dkick' = [dkick EXCEPT ![t] = kicked]
  /\ overlap' = (overlap \/ \E u \in Tasks \ {t} : InCall(u))

\* The run-time error of close(client.clientReady) on a channel that is not
\* open
CloseError(ch) ==
  IF ch = "nil" THEN "close of nil clientReady" ELSE "close of closed clientReady"

\* A run-time panic (close of a nil or closed channel, send on a closed
\* channel, nil dereference, slice out of range) in a goroutine without
\* recover: the process ends.
Panics(t, error) ==
  /\ crashed' = TRUE
  /\ panicked' = error
  /\ callEnded' = (callEnded \/ InCall(t))

\* client.disconnect, line 188: if !client.disconnected
DiscCheck(t) ==
  /\ ~crashed /\ UNCHANGED <<nonClient, udpIo>> /\ dpc[t] = "chk"
  /\ IF disconnected
       THEN dpc' = [dpc EXCEPT ![t] = "ret"] /\ callEnded' = TRUE
       ELSE dpc' = [dpc EXCEPT ![t] = "set"] /\ UNCHANGED callEnded
  /\ UNCHANGED <<state, disconnected, clientReady, udprecv, conn, udp,
                 removed, connCloses, codecUpdates, versionWrites, nread,
                 incoming, pcRecv, pending, pcAuth, pcUdp, udpBuf, dkick,
                 extCalls, crashed, panicked, overlap>>

\* line 189: client.disconnected = true
DiscSet(t) ==
  /\ ~crashed /\ UNCHANGED <<nonClient, udpIo>> /\ dpc[t] = "set"
  /\ disconnected' = TRUE
  /\ dpc' = [dpc EXCEPT ![t] = "rm"]
  /\ UNCHANGED <<state, clientReady, udprecv, conn, udp, removed, connCloses,
                 codecUpdates, versionWrites, nread, incoming, pcRecv,
                 pending, pcAuth, pcUdp, udpBuf, dkick, extCalls, crashed, panicked,
                 callEnded, overlap>>

\* line 190: client.server.RemoveClient(client, kicked)
DiscRemove(t) ==
  /\ ~crashed /\ UNCHANGED <<nonClient, udpIo>> /\ dpc[t] = "rm"
  /\ removed' = Append(removed, dkick[t])
  /\ dpc' = [dpc EXCEPT ![t] = "udp"]
  /\ UNCHANGED <<state, disconnected, clientReady, udprecv, conn, udp,
                 connCloses, codecUpdates, versionWrites, nread, incoming,
                 pcRecv, pending, pcAuth, pcUdp, udpBuf, dkick, extCalls,
                 crashed, panicked, callEnded, overlap>>

\* line 193: close(client.udprecv); closing a closed channel panics
DiscCloseUdp(t) ==
  /\ ~crashed /\ UNCHANGED <<nonClient, udpIo>> /\ dpc[t] = "udp"
  /\ IF udprecv = "closed"
       THEN Panics(t, "close of closed udprecv") /\ UNCHANGED <<udprecv, dpc>>
       ELSE /\ udprecv' = "closed"
            /\ dpc' = [dpc EXCEPT ![t] = "rdy"]
            /\ UNCHANGED <<crashed, panicked, callEnded>>
  /\ UNCHANGED <<state, disconnected, clientReady, conn, udp, removed,
                 connCloses, codecUpdates, versionWrites, nread, incoming,
                 pcRecv, pending, pcAuth, pcUdp, udpBuf, dkick, extCalls,
                 overlap>>

\* lines 202-204: close(client.clientReady) in the two authentication
\* states; closing a nil or a closed channel panics
DiscCloseReady(t) ==
  /\ ~crashed /\ UNCHANGED <<nonClient, udpIo>> /\ dpc[t] = "rdy"
  /\ IF state = StateClientSentVersion \/ state = StateClientAuthenticated
       THEN IF clientReady = "open"
              THEN /\ clientReady' = "closed"
                   /\ dpc' = [dpc EXCEPT ![t] = "conn"]
                   /\ UNCHANGED <<crashed, panicked, callEnded>>
              ELSE /\ Panics(t, CloseError(clientReady))
                   /\ UNCHANGED <<clientReady, dpc>>
       ELSE /\ dpc' = [dpc EXCEPT ![t] = "conn"]
            /\ UNCHANGED <<clientReady, crashed, panicked, callEnded>>
  /\ UNCHANGED <<state, disconnected, udprecv, conn, udp, removed,
                 connCloses, codecUpdates, versionWrites, nread, incoming,
                 pcRecv, pending, pcAuth, pcUdp, udpBuf, dkick, extCalls,
                 overlap>>

\* line 207: client.conn.Close()
DiscCloseConn(t) ==
  /\ ~crashed /\ UNCHANGED <<nonClient, udpIo>> /\ dpc[t] = "conn"
  /\ conn' = "closed"
  /\ connCloses' = connCloses + 1
  /\ dpc' = [dpc EXCEPT ![t] = "codec"]
  /\ UNCHANGED <<state, disconnected, clientReady, udprecv, udp, removed,
                 codecUpdates, versionWrites, nread, incoming, pcRecv,
                 pending, pcAuth, pcUdp, udpBuf, dkick, extCalls, crashed, panicked,
                 callEnded, overlap>>

\* line 209: client.server.updateCodecVersions(nil), then the call returns
DiscCodec(t) ==
  /\ ~crashed /\ UNCHANGED <<nonClient, udpIo>> /\ dpc[t] = "codec"
  /\ codecUpdates' = codecUpdates + 1
  /\ dpc' = [dpc EXCEPT ![t] = "ret"]
  /\ callEnded' = TRUE
  /\ UNCHANGED <<state, disconnected, clientReady, udprecv, conn, udp,
                 removed, connCloses, versionWrites, nread, incoming, pcRecv,
                 pending, pcAuth, pcUdp, udpBuf, dkick, extCalls, crashed, panicked,
                 overlap>>

disconnect(t) ==
  \/ DiscCheck(t) \/ DiscSet(t) \/ DiscRemove(t) \/ DiscCloseUdp(t)
  \/ DiscCloseReady(t) \/ DiscCloseConn(t) \/ DiscCodec(t)

\* Groups of variables an action leaves alone.
effects == <<removed, connCloses, codecUpdates>>
chans == <<clientReady, udprecv, conn>>
calls == <<dpc, dkick, overlap>>
udpSide == <<pcUdp, udpBuf>>

\* The caller of Disconnect / Panicf in tlsRecvLoop returns when the call does.
RecvStartDisconnect ==
  /\ pcRecv' = "disc"
  /\ Enter("recv", FALSE)

\* tlsRecvLoop, lines 445-455: in the Ready state, read the next message.
\* The read fails on EOF, on a transport error and once the transport is
\* closed; then the loop disconnects the client and returns.
RecvReadyRead ==
  /\ ~crashed /\ UNCHANGED <<nonClient, udpIo>> /\ pcRecv = "ifReady" /\ state = StateClientReady
  /\ \/ /\ RecvStartDisconnect
        /\ UNCHANGED <<pending, nread>>
     \/ /\ conn = "open" /\ nread < 2 + MaxMsgs
        /\ \E m \in Messages(offered) : pending' = [m EXCEPT !.id = nread + 1]
        /\ nread' = nread + 1
        /\ pcRecv' = "rdDeliver"
        /\ UNCHANGED calls
  /\ UNCHANGED <<state, disconnected, chans, udp, effects, versionWrites,
                 incoming, pcAuth, udpSide, extCalls, crashed, panicked, callEnded>>

\* line 445, the test fails
RecvSkipReady ==
  /\ ~crashed /\ UNCHANGED <<nonClient, udpIo>> /\ pcRecv = "ifReady" /\ state # StateClientReady
  /\ pcRecv' = "ifCSV"
  /\ UNCHANGED <<state, disconnected, chans, udp, effects, versionWrites,
                 nread, incoming, pending, pcAuth, udpSide, calls, extCalls,
                 crashed, panicked, callEnded>>

\* lines 458-464: a UDPTunnel message marks udp = false and goes to udprecv,
\* any other message goes to server.incoming.
RecvDeliver ==
  /\ ~crashed /\ UNCHANGED <<nonClient, udpIo>> /\ pcRecv = "rdDeliver"
  /\ IF pending.kind = "msg"
       THEN /\ incoming' = Append(incoming, pending.id)
            /\ pending' = NoMsg
            /\ pcRecv' = "ifCSV"
            /\ UNCHANGED udp
       ELSE /\ udp' = FALSE
            /\ pcRecv' = "rdSend"
            /\ UNCHANGED <<incoming, pending>>
  /\ UNCHANGED <<state, disconnected, chans, effects, versionWrites, nread,
                 pcAuth, udpSide, calls, extCalls, crashed, panicked, callEnded>>

\* line 460: client.udprecv <- msg.buf on the unbuffered channel: a send on
\* a closed channel panics, otherwise it completes when udpRecvLoop receives.
RecvTunnelSend ==
  /\ ~crashed /\ UNCHANGED nonClient /\ pcRecv = "rdSend"
  /\ IF udprecv = "closed"
       THEN /\ Panics("recv", "send on closed udprecv")
            /\ UNCHANGED <<pcRecv, pending, udpSide, udpVia>>
       ELSE /\ pcUdp = "range"
            /\ pcUdp' = "got"
            /\ udpBuf' = pending.buf
            /\ udpVia' = "tunnel"
            /\ pending' = NoMsg
            /\ pcRecv' = "ifCSV"
            /\ UNCHANGED <<crashed, panicked, callEnded>>
  /\ UNCHANGED <<legacyPeer, tunnelWrites, udpSends, voicebroadcast, udpPkt,
                 udpOut, udpExit, sockCount, offered>>
  /\ UNCHANGED <<state, disconnected, chans, udp, effects, versionWrites,
                 nread, incoming, pcAuth, calls, extCalls>>

\* lines 468-478: in ClientSentVersion, read the Authenticate message.
RecvCsvRead ==
  /\ ~crashed /\ UNCHANGED <<nonClient, udpIo>> /\ pcRecv = "ifCSV" /\ state = StateClientSentVersion
  /\ \/ /\ RecvStartDisconnect
        /\ UNCHANGED <<nread>>
     \/ /\ conn = "open"
        /\ nread' = nread + 1
        /\ pcRecv' = "csvMake"
        /\ UNCHANGED calls
  /\ UNCHANGED <<state, disconnected, chans, udp, effects, versionWrites,
                 incoming, pending, pcAuth, udpSide, extCalls, crashed, panicked,
                 callEnded>>

\* line 468, the test fails
RecvSkipCsv ==
  /\ ~crashed /\ UNCHANGED <<nonClient, udpIo>> /\ pcRecv = "ifCSV" /\ state # StateClientSentVersion
  /\ pcRecv' = "ifConn"
  /\ UNCHANGED <<state, disconnected, chans, udp, effects, versionWrites,
                 nread, incoming, pending, pcAuth, udpSide, calls, extCalls,
                 crashed, panicked, callEnded>>

\* lines 480-482: make the channel, start handleAuthenticate, wait.
RecvCsvMake ==
  /\ ~crashed /\ UNCHANGED <<nonClient, udpIo>> /\ pcRecv = "csvMake"
  /\ clientReady' = "open"
  /\ pcAuth' = "start"
  /\ pcRecv' = "csvWait"
  /\ UNCHANGED <<state, disconnected, udprecv, conn, udp, effects,
                 versionWrites, nread, incoming, pending, udpSide, calls,
                 extCalls, crashed, panicked, callEnded>>

\* line 482: <-client.clientReady returns at once on a closed channel.
RecvCsvWake ==
  /\ ~crashed /\ UNCHANGED <<nonClient, udpIo>> /\ pcRecv = "csvWait" /\ clientReady = "closed"
  /\ pcRecv' = "csvWoke"
  /\ UNCHANGED <<state, disconnected, chans, udp, effects, versionWrites,
                 nread, incoming, pending, pcAuth, udpSide, calls, extCalls,
                 crashed, panicked, callEnded>>

\* lines 487-489: step out of the receiver if the client has disconnected.
RecvCsvCheck ==
  /\ ~crashed /\ UNCHANGED <<nonClient, udpIo>> /\ pcRecv = "csvWoke"
  /\ pcRecv' = IF disconnected THEN "done" ELSE "csvClose"
  /\ UNCHANGED <<state, disconnected, chans, udp, effects, versionWrites,
                 nread, incoming, pending, pcAuth, udpSide, calls, extCalls,
                 crashed, panicked, callEnded>>

\* line 491: close(client.clientReady)
RecvCsvClose ==
  /\ ~crashed /\ UNCHANGED <<nonClient, udpIo>> /\ pcRecv = "csvClose"
  /\ IF clientReady = "open"
       THEN /\ clientReady' = "closed"
            /\ pcRecv' = "csvNil"
            /\ UNCHANGED <<crashed, panicked, callEnded>>
       ELSE /\ Panics("recv", CloseError(clientReady))
            /\ UNCHANGED <<clientReady, pcRecv>>
  /\ UNCHANGED <<state, disconnected, udprecv, conn, udp, effects,
                 versionWrites, nread, incoming, pending, pcAuth, udpSide,
                 calls, extCalls>>

\* line 492: client.clientReady = nil
RecvCsvNil ==
  /\ ~crashed /\ UNCHANGED <<nonClient, udpIo>> /\ pcRecv = "csvNil"
  /\ clientReady' = "nil"
  /\ pcRecv' = "ifConn"
  /\ UNCHANGED <<state, disconnected, udprecv, conn, udp, effects,
                 versionWrites, nread, incoming, pending, pcAuth, udpSide,
                 calls, extCalls, crashed, panicked, callEnded>>

\* lines 498-511: in Connected, send the server's Version (the result of
\* sendMessage is dropped) and move to ServerSentVersion.
RecvSendVersion ==
  /\ ~crashed /\ UNCHANGED <<nonClient, udpIo>> /\ pcRecv = "ifConn" /\ state = StateClientConnected
  /\ versionWrites' = versionWrites + 1
  /\ state' = StateServerSentVersion
  /\ pcRecv' = "ifReady"
  /\ UNCHANGED <<disconnected, chans, udp, effects, nread, incoming, pending,
                 pcAuth, udpSide, calls, extCalls, crashed, panicked, callEnded>>

\* lines 512-521: in ServerSentVersion, read the peer's Version.
RecvReadVersion ==
  /\ ~crashed /\ UNCHANGED <<nonClient, udpIo>> /\ pcRecv = "ifConn" /\ state = StateServerSentVersion
  /\ \/ /\ RecvStartDisconnect
        /\ UNCHANGED <<nread>>
     \/ /\ conn = "open"
        /\ nread' = nread + 1
        /\ pcRecv' = "verHandle"
        /\ UNCHANGED calls
  /\ UNCHANGED <<state, disconnected, chans, udp, effects, versionWrites,
                 incoming, pending, pcAuth, udpSide, extCalls, crashed, panicked,
                 callEnded>>

\* line 523: handleVersionMessage records the peer's version, which tells
\* whether the peer speaks the length-delimited UDP format, or panics the
\* client when the message is not a Version.
handleVersionMessage ==
  /\ ~crashed /\ UNCHANGED nonClient /\ pcRecv = "verHandle"
  /\ \/ /\ pcRecv' = "verSet"
        /\ legacyPeer' \in BOOLEAN
        /\ UNCHANGED calls
     \/ /\ pcRecv' = "verDisc"
        /\ Enter("recv", FALSE)
        /\ UNCHANGED legacyPeer
  /\ UNCHANGED <<tunnelWrites, udpSends, voicebroadcast, udpVia, udpPkt,
                 udpOut, udpExit, sockCount, offered>>
  /\ UNCHANGED <<state, disconnected, chans, udp, effects, versionWrites,
                 nread, incoming, pending, pcAuth, udpSide, extCalls, crashed, panicked,
                 callEnded>>

\* line 524: client.state = StateClientSentVersion, whatever the handler did
RecvSetCSV ==
  /\ ~crashed /\ UNCHANGED <<nonClient, udpIo>>
  /\ \/ pcRecv = "verSet" /\ UNCHANGED dpc
     \/ /\ pcRecv = "verDisc" /\ dpc["recv"] = "ret"
        /\ dpc' = [dpc EXCEPT !["recv"] = "idle"]
  /\ state' = StateClientSentVersion
  /\ pcRecv' = "ifReady"
  /\ UNCHANGED <<disconnected, chans, udp, effects, versionWrites, nread,
                 incoming, pending, pcAuth, udpSide, dkick, overlap, extCalls,
                 crashed, panicked, callEnded>>

\* lines 498-525, neither test holds: next iteration
RecvSkipConn ==
  /\ ~crashed /\ UNCHANGED <<nonClient, udpIo>> /\ pcRecv = "ifConn"
  /\ state # StateClientConnected /\ state # StateServerSentVersion
  /\ pcRecv' = "ifReady"
  /\ UNCHANGED <<state, disconnected, chans, udp, effects, versionWrites,
                 nread, incoming, pending, pcAuth, udpSide, calls, extCalls,
                 crashed, panicked, callEnded>>

\* lines 454, 477, 520: return after the disconnect
RecvReturn ==
  /\ ~crashed /\ UNCHANGED <<nonClient, udpIo>> /\ pcRecv = "disc" /\ dpc["recv"] = "ret"
  /\ pcRecv' = "done"
  /\ dpc' = [dpc EXCEPT !["recv"] = "idle"]
  /\ UNCHANGED <<state, disconnected, chans, udp, effects, versionWrites,
                 nread, incoming, pending, pcAuth, udpSide, dkick, overlap,
                 extCalls, crashed, panicked, callEnded>>

tlsRecvLoop ==
  \/ RecvReadyRead \/ RecvSkipReady \/ RecvDeliver \/ RecvTunnelSend
  \/ RecvCsvRead \/ RecvSkipCsv \/ RecvCsvMake \/ RecvCsvWake
  \/ RecvCsvCheck \/ RecvCsvClose \/ RecvCsvNil \/ RecvSendVersion
  \/ RecvReadVersion \/ handleVersionMessage \/ RecvSetCSV \/ RecvSkipConn
  \/ RecvReturn \/ disconnect("recv")

\* RejectAuth, lines 231-243: send Reject, then ForceDisconnect.
RejectAuth ==
  /\ ~crashed /\ UNCHANGED <<nonClient, udpIo>> /\ pcAuth = "start"
  /\ pcAuth' = "rejected"
  /\ Enter("auth", TRUE)
  /\ UNCHANGED <<state, disconnected, chans, udp, effects, versionWrites,
                 nread, incoming, pcRecv, pending, udpSide, extCalls, crashed, panicked,
                 callEnded>>

\* handleAuthenticate returns after RejectAuth.
AuthReturn ==
  /\ ~crashed /\ UNCHANGED <<nonClient, udpIo>> /\ pcAuth = "rejected" /\ dpc["auth"] = "ret"
  /\ pcAuth' = "done"
  /\ dpc' = [dpc EXCEPT !["auth"] = "idle"]
  /\ UNCHANGED <<state, disconnected, chans, udp, effects, versionWrites,
                 nread, incoming, pcRecv, pending, udpSide, dkick, overlap,
                 extCalls, crashed, panicked, callEnded>>

\* handleAuthenticate accepts the credentials: the client is Authenticated.
handleAuthenticate ==
  /\ ~crashed /\ UNCHANGED <<nonClient, udpIo>> /\ pcAuth = "start"
  /\ state' = StateClientAuthenticated
  /\ pcAuth' = "authed"
  /\ UNCHANGED <<disconnected, chans, udp, effects, versionWrites, nread,
                 incoming, pcRecv, pending, udpSide, calls, extCalls, crashed, panicked,
                 callEnded>>

\* finishAuthenticate: once the channel tree, the user states and the
\* server sync have been sent the client is Ready.
finishAuthenticate ==
  /\ ~crashed /\ UNCHANGED <<nonClient, udpIo>> /\ pcAuth = "authed"
  /\ state' = StateClientReady
  /\ pcAuth' = "signal"
  /\ UNCHANGED <<disconnected, chans, udp, effects, versionWrites, nread,
                 incoming, pcRecv, pending, udpSide, calls, extCalls, crashed, panicked,
                 callEnded>>

\* client.clientReady <- true: the single-shot readiness signal. The send
\* completes when the receive loop takes the value; a send on a closed
\* channel panics, a send on a nil channel blocks for ever.
SignalReady ==
  /\ ~crashed /\ UNCHANGED <<nonClient, udpIo>> /\ pcAuth = "signal"
  /\ IF clientReady = "closed"
       THEN /\ Panics("auth", "send on closed clientReady")
            /\ UNCHANGED <<pcAuth, pcRecv>>
       ELSE /\ clientReady = "open" /\ pcRecv = "csvWait"
            /\ pcRecv' = "csvWoke"
            /\ pcAuth' = "done"
            /\ UNCHANGED <<crashed, panicked, callEnded>>
  /\ UNCHANGED <<state, disconnected, chans, udp, effects, versionWrites,
                 nread, incoming, pending, udpSide, calls, extCalls>>

authenticate ==
  \/ RejectAuth \/ AuthReturn \/ handleAuthenticate \/ finishAuthenticate
  \/ SignalReady \/ disconnect("auth")

\* Disconnect (line 214), ForceDisconnect (219), Panic (175) and Panicf
\* (181) called by another task of the server.
DisconnectOps == {"Disconnect", "ForceDisconnect", "Panic", "Panicf"}

ExtCall ==
  /\ ~crashed /\ UNCHANGED <<nonClient, udpIo>> /\ dpc["ext"] = "idle" /\ extCalls < MaxExtCalls
  /\ \E op \in DisconnectOps : Enter("ext", op = "ForceDisconnect")
  /\ extCalls' = extCalls + 1
  /\ UNCHANGED <<state, disconnected, chans, udp, effects, versionWrites,
                 nread, incoming, pcRecv, pending, pcAuth, udpSide, crashed, panicked,
                 callEnded>>

ExtReturn ==
  /\ ~crashed /\ UNCHANGED <<nonClient, udpIo>> /\ dpc["ext"] = "ret"
  /\ dpc' = [dpc EXCEPT !["ext"] = "idle"]
  /\ UNCHANGED <<state, disconnected, chans, udp, effects, versionWrites,
                 nread, incoming, pcRecv, pending, pcAuth, udpSide, dkick,
                 overlap, extCalls, crashed, panicked, callEnded>>

otherTask == ExtCall \/ ExtReturn \/ disconnect("ext")

\* The UDP socket reader of the server finds the client a datagram came
\* from, marks the client reachable over UDP and hands the datagram to the
\* client's udprecv; the hand-over completes when udpRecvLoop receives.
SockDeliver ==
  /\ ~crashed /\ UNCHANGED nonClient
  /\ state = StateClientReady /\ removed = <<>> /\ udprecv = "open"
  /\ sockCount < MaxDatagrams
  /\ pcUdp = "range"
  /\ \E b \in offered : udpBuf' = b
  /\ udp' = TRUE
  /\ udpVia' = "socket"
  /\ pcUdp' = "got"
  /\ sockCount' = sockCount + 1
  /\ UNCHANGED <<state, disconnected, chans, effects, versionWrites, nread,
                 incoming, pcRecv, pending, pcAuth, calls, extCalls,
                 crashed, panicked, callEnded, legacyPeer, tunnelWrites, udpSends,
                 voicebroadcast, udpPkt, udpOut, udpExit, offered>>

\* udpRecvLoop, line 331: the range over udprecv ends when it is closed.
UdpRangeEnds ==
  /\ ~crashed /\ UNCHANGED nonClient /\ pcUdp = "range" /\ udprecv = "closed"
  /\ pcUdp' = "exited"
  /\ udpExit' = "closed"
  /\ UNCHANGED <<state, disconnected, chans, udp, effects, versionWrites,
                 nread, incoming, pcRecv, pending, pcAuth, udpBuf,
                 calls, extCalls, crashed, panicked, callEnded, legacyPeer,
                 tunnelWrites, udpSends, voicebroadcast, udpVia, udpPkt,
                 udpOut, sockCount, offered>>

\* Bandwidth.AddFrame(len(buf), MaxBandwidth): admit or refuse
AddFrame == BOOLEAN

\* lines 334-344: the loop returns on an empty buffer and on a frame that
\* Bandwidth.AddFrame refuses; an admitted buffer is parsed.  The buffer has
\* no capacity beyond its length.
UdpParse ==
  /\ ~crashed /\ UNCHANGED nonClient /\ pcUdp = "got"
  /\ IF Len(udpBuf) = 0
       THEN pcUdp' = "exited" /\ udpExit' = "empty" /\ UNCHANGED udpPkt
       ELSE \E admitted \in AddFrame :
              IF admitted
                THEN /\ udpPkt' = ParseUDPPacket(udpBuf, <<>>, legacyPeer)
                     /\ pcUdp' = "switch"
                     /\ UNCHANGED udpExit
                ELSE /\ pcUdp' = "exited"
                     /\ udpExit' = "bandwidth"
                     /\ UNCHANGED udpPkt
  /\ UNCHANGED <<state, disconnected, chans, udp, effects, versionWrites,
                 nread, incoming, pcRecv, pending, pcAuth, udpBuf, calls,
                 extCalls, crashed, panicked, callEnded, legacyPeer,
                 tunnelWrites, udpSends, voicebroadcast, udpVia, udpOut,
                 sockCount, offered>>

\* AudioPacket.SetSenderSession, PingPacket.SetSenderSession
SetSenderSession(p, s) ==
  IF p.kind = "audio" THEN [p EXCEPT !.SenderSession = s] ELSE p

\* v.Data(legacy): the packet's emission in the format it came in
Data(p, legacy) == IF legacy THEN LegacyData(p) ELSE ProtobufData(p)

\* line 361 and lines 362-373: the audio packet gets the client's session,
\* then it is echoed if its target is the server loopback and placed on the
\* voice broadcast queue otherwise.
UdpAudio(v) ==
  IF v.TargetOrContext = TargetServerLoopback
    THEN /\ udpOut' = Data(v, udpPkt.legacy)
         /\ pcUdp' = "send"
         /\ UNCHANGED voicebroadcast
    ELSE /\ voicebroadcast' = Append(voicebroadcast, v)
         /\ pcUdp' = "range"
         /\ UNCHANGED udpOut

\* lines 345-374: a nil interface makes the loop return; the type switch
\* takes a nil *PingPacket for a ping and a nil *AudioPacket for an audio
\* packet, and the first method that touches the packet's fields panics, as
\* does the parser's slice beyond the buffer; a ping is echoed.
UdpSwitch ==
  /\ ~crashed /\ UNCHANGED nonClient /\ pcUdp = "switch"
  /\ IF udpPkt.pkt.kind = "nil"
       THEN /\ pcUdp' = "exited"
            /\ udpExit' = "unparsed"
            /\ UNCHANGED <<udpOut, voicebroadcast, crashed, panicked, callEnded>>
     ELSE IF udpPkt.pkt.kind \in {"nilPing", "nilAudio", "panic"}
       THEN /\ Panics("udp", IF udpPkt.pkt.kind = "panic"
                                THEN "slice bounds out of range"
                                ELSE "nil pointer dereference")
            /\ pcUdp' = "panic"
            /\ UNCHANGED <<udpExit, udpOut, voicebroadcast>>
     ELSE IF udpPkt.pkt.kind = "ping"
       THEN /\ udpOut' = Data(udpPkt.pkt, udpPkt.legacy)
            /\ pcUdp' = "send"
            /\ UNCHANGED <<udpExit, voicebroadcast, crashed, panicked, callEnded>>
     ELSE /\ UdpAudio(SetSenderSession(udpPkt.pkt, session))
          /\ UNCHANGED <<udpExit, crashed, panicked, callEnded>>
  /\ udpPkt' = NothingParsed
  /\ udpBuf' = <<>>
  /\ UNCHANGED <<state, disconnected, chans, udp, effects, versionWrites,
                 nread, incoming, pcRecv, pending, pcAuth, calls, extCalls,
                 legacyPeer, tunnelWrites, udpSends, udpVia, sockCount,
                 offered>>

\* sendMessage, lines 419-432: the frame of a message, written in one Write
Frame(kind, msgData) ==
  <<kind \div 256, kind % 256>>
    \o <<Len(msgData) \div 16777216, (Len(msgData) \div 65536) % 256,
         (Len(msgData) \div 256) % 256, Len(msgData) % 256>>
    \o msgData

\* SendUDP, lines 381-389: over UDP the encrypted datagram, else sendMessage
\* writes a UDPTunnel frame; the Write fails once the transport is closed
\* and the loop then calls client.Panicf (lines 354, 368).
SendUDP ==
  /\ ~crashed /\ UNCHANGED nonClient /\ pcUdp = "send"
  /\ IF udp
       THEN /\ udpSends' = Append(udpSends, Len(udpOut) + Overhead)
            /\ pcUdp' = "range"
            /\ UNCHANGED <<tunnelWrites, calls>>
     ELSE IF conn = "open"
       THEN /\ tunnelWrites' = Append(tunnelWrites, Frame(MessageUDPTunnel, udpOut))
            /\ pcUdp' = "range"
            /\ UNCHANGED <<udpSends, calls>>
     ELSE /\ pcUdp' = "panicf"
          /\ Enter("udp", FALSE)
          /\ UNCHANGED <<tunnelWrites, udpSends>>
  /\ udpOut' = <<>>
  /\ UNCHANGED <<state, disconnected, chans, udp, effects, versionWrites,
                 nread, incoming, pcRecv, pending, pcAuth, udpBuf,
                 extCalls, crashed, panicked, callEnded, legacyPeer, voicebroadcast,
                 udpVia, udpPkt, udpExit, sockCount, offered>>

\* client.Panicf has returned: the next round of the loop
UdpPanicfReturn ==
  /\ ~crashed /\ UNCHANGED <<nonClient, udpIo>>
  /\ pcUdp = "panicf" /\ dpc["udp"] = "ret"
  /\ pcUdp' = "range"
  /\ dpc' = [dpc EXCEPT !["udp"] = "idle"]
  /\ UNCHANGED <<state, disconnected, chans, udp, effects, versionWrites,
                 nread, incoming, pcRecv, pending, pcAuth, udpBuf,
                 dkick, overlap, extCalls, crashed, panicked, callEnded>>

udpRecvLoop ==
  \/ UdpRangeEnds \/ UdpParse \/ UdpSwitch \/ SendUDP
  \/ UdpPanicfReturn \/ disconnect("udp")

\* ------------------------------------------------ blobstore: lock file
\* The live processes that call AcquireLockFile on one path; their pids.
\* Pid 0 stands for the pid of a process that has died.
Procs == 1..NumProcs

Absent == <<"absent", 0>>
StaleFile == <<"stale", 0>>
ExclFile(p) == <<"excl", p>>
TempFile(p) == <<"temp", p>>

\* The lock file is absent, or a process that died left it behind with its
\* pid in it, or empty (it died before it wrote the pid).
LockInit ==
  /\ \/ lockName = Absent /\ content = <<>>
     \/ /\ lockName = StaleFile
        /\ \E c \in {{}, {0}} : content = (StaleFile :> c)
  /\ lpc = [p \in Procs |-> "start"]
  /\ lread = [p \in Procs |-> {}]
  /\ released = FALSE

\* The lock-file variables while the model runs another component.
LockIdle ==
  /\ lockName = Absent /\ content = <<>>
  /\ lpc = [p \in Procs |-> "start"]
  /\ lread = [p \in Procs |-> {}]
  /\ released = FALSE

\* syscall.Kill(pid, 0) == 0
Alive(pid) == pid \in Procs

\* strconv.Atoi(string(content)) succeeds: the file holds one pid.
IsPid(c) == Cardinality(c) = 1

\* line 410: os.OpenFile(lockfn, O_WRONLY|O_CREATE|O_EXCL)
AcquireOpen(p) ==
  /\ lpc[p] = "start"
  /\ IF lockName = Absent
       THEN /\ lockName' = ExclFile(p)
            /\ content' = (ExclFile(p) :> {}) @@ content
            /\ lpc' = [lpc EXCEPT ![p] = "write"]
       ELSE /\ lpc' = [lpc EXCEPT ![p] = "read"]
            /\ UNCHANGED <<lockName, content>>
  /\ UNCHANGED <<lread, released, cvars, fvars, kvars, bvars>>

\* lines 412-415: ioutil.ReadFile(lockfn)
AcquireRead(p) ==
  /\ lpc[p] = "read"
  /\ IF lockName = Absent
       THEN lpc' = [lpc EXCEPT ![p] = "error"] /\ UNCHANGED lread
       ELSE /\ lread' = [lread EXCEPT ![p] = content[lockName]]
            /\ lpc' = [lpc EXCEPT ![p] = "probe"]
  /\ UNCHANGED <<lockName, content, released, cvars, fvars, kvars, bvars>>

\* lines 417-422: ErrLocked when the file holds the pid of a live process
AcquireProbe(p) ==
  /\ lpc[p] = "probe"
  /\ lpc' = [lpc EXCEPT ![p] =
               IF IsPid(lread[p]) /\ \E q \in lread[p] : Alive(q)
                 THEN "locked" ELSE "temp"]
  /\ UNCHANGED <<lockName, content, lread, released, cvars, fvars,
                 kvars, bvars>>

\* lines 424-440: write the pid to a temporary file and close it
AcquireTemp(p) ==
  /\ lpc[p] = "temp"
  /\ \/ /\ content' = (TempFile(p) :> {p}) @@ content
        /\ lpc' = [lpc EXCEPT ![p] = "rename"]
     \/ /\ lpc' = [lpc EXCEPT ![p] = "error"]
        /\ UNCHANGED content
  /\ UNCHANGED <<lockName, lread, released, cvars, fvars, kvars, bvars>>

\* lines 442-446: os.Rename(curfn, lockfn), then return nil
AcquireRename(p) ==
  /\ lpc[p] = "rename"
  /\ \/ /\ lockName' = TempFile(p)
        /\ lpc' = [lpc EXCEPT ![p] = "held"]
     \/ /\ lpc' = [lpc EXCEPT ![p] = "error"]
        /\ UNCHANGED lockName
  /\ UNCHANGED <<content, lread, released, cvars, fvars, kvars, bvars>>

\* lines 449-455: the file was created here: write the pid into it (through
\* the descriptor, whatever the name refers to by now) and return nil
AcquireWrite(p) ==
  /\ lpc[p] = "write"
  /\ \/ /\ content' = [content EXCEPT ![ExclFile(p)] = {p}]
        /\ lpc' = [lpc EXCEPT ![p] = "held"]
     \/ /\ lpc' = [lpc EXCEPT ![p] = "error"]
        /\ UNCHANGED content
  /\ UNCHANGED <<lockName, lread, released, cvars, fvars, kvars, bvars>>

AcquireLockFile(p) ==
  \/ AcquireOpen(p) \/ AcquireRead(p) \/ AcquireProbe(p)
  \/ AcquireTemp(p) \/ AcquireRename(p) \/ AcquireWrite(p)

\* line 461: os.Remove(path), by a process that holds the lock
ReleaseLockFile(p) ==
  /\ lpc[p] = "held"
  /\ lockName' = Absent
  /\ released' = TRUE
  /\ lpc' = [lpc EXCEPT ![p] = "done"]
  /\ UNCHANGED <<content, lread, cvars, fvars, kvars, bvars>>

LockNext == \E p \in Procs : AcquireLockFile(p) \/ ReleaseLockFile(p)

\* ------------------- src/pkg/database/ban_test.go: Server.freezeToFile
NoFile == <<"absent", 0>>
\* A snapshot file: all of snapshot g, or only a part of it.
Full(g) == <<"full", g>>
Partial(g) == <<"partial", g>>

FreezeInit ==
  /\ files = [n \in {"main.fz", "backup.fz", "tmp"} |-> NoFile]
  /\ freezelog = "nil"
  /\ fpc = "idle"
  /\ freezes = 0
  /\ fprev = NoFile
  /\ fresult = "none"
  /\ frozen = FALSE

\* The snapshot written in place, over main.fz itself.
CreateTempInPlace == "main.fz"
\* line 78: os.CreateTemp(dir, ".main.fz_") makes a new file beside main.fz
CreateTempName == "tmp"

\* The call returns err: nothing more is done.
FreezeFails ==
  /\ fpc' = "idle"
  /\ fresult' = "err"

\* The server calls freezeToFile; the freeze log is open or not.
FreezeCall ==
  /\ fpc = "idle" /\ freezes < MaxFreezes
  /\ freezes' = freezes + 1
  /\ fprev' = files["main.fz"]
  /\ fresult' = "none"
  /\ \E l \in {"open", "nil"} : freezelog' = l
  /\ fpc' = "closeLog"
  /\ UNCHANGED <<files, frozen, cvars, lvars, kvars, bvars>>

\* lines 65-71: close the log file, if it's open
FreezeCloseLog ==
  /\ fpc = "closeLog"
  /\ \/ /\ freezelog = "open"
        /\ FreezeFails
        /\ UNCHANGED freezelog
     \/ /\ freezelog' = "nil"
        /\ fpc' = "freeze"
        /\ UNCHANGED fresult
  /\ UNCHANGED <<files, freezes, fprev, frozen, cvars, lvars, kvars, bvars>>

\* lines 74-77: fs, err := server.Freeze()
FreezeServer ==
  /\ fpc = "freeze"
  /\ \/ FreezeFails
     \/ fpc' = "createTemp" /\ UNCHANGED fresult
  /\ UNCHANGED <<files, freezelog, freezes, fprev, frozen, cvars,
                 lvars, kvars, bvars>>

\* lines 78-81: the temporary file is created empty
FreezeCreateTemp ==
  /\ fpc = "createTemp"
  /\ \/ FreezeFails /\ UNCHANGED files
     \/ /\ files' = [files EXCEPT ![CreateTempName] = Partial(freezes)]
        /\ fpc' = "marshal"
        /\ UNCHANGED fresult
  /\ UNCHANGED <<freezelog, freezes, fprev, frozen, cvars, lvars, kvars, bvars>>

\* lines 82-85: proto.Marshal(fs)
FreezeMarshal ==
  /\ fpc = "marshal"
  /\ \/ FreezeFails
     \/ fpc' = "write" /\ UNCHANGED fresult
  /\ UNCHANGED <<files, freezelog, freezes, fprev, frozen, cvars,
                 lvars, kvars, bvars>>

\* lines 86-89: f.Write(buf); a failed write leaves a part of the snapshot
FreezeWrite ==
  /\ fpc = "write"
  /\ \/ FreezeFails /\ UNCHANGED files
     \/ /\ files' = [files EXCEPT ![CreateTempName] = Full(freezes)]
        /\ fpc' = "sync"
        /\ UNCHANGED fresult
  /\ UNCHANGED <<freezelog, freezes, fprev, frozen, cvars, lvars, kvars, bvars>>

\* lines 90-93: f.Sync()
FreezeSync ==
  /\ fpc = "sync"
  /\ \/ FreezeFails
     \/ fpc' = "close" /\ UNCHANGED fresult
  /\ UNCHANGED <<files, freezelog, freezes, fprev, frozen, cvars,
                 lvars, kvars, bvars>>

\* lines 94-97: f.Close()
FreezeClose ==
  /\ fpc = "close"
  /\ \/ FreezeFails
     \/ fpc' = "replace" /\ UNCHANGED fresult
  /\ UNCHANGED <<files, freezelog, freezes, fprev, frozen, cvars,
                 lvars, kvars, bvars>>

\* lines 106-108: main.fz does not exist yet: os.Rename(src, dst)
FreezeRename ==
  /\ fpc = "replace" /\ files["main.fz"] = NoFile
  /\ \/ FreezeFails /\ UNCHANGED <<files, frozen>>
     \/ /\ files' = [[files EXCEPT ![CreateTempName] = NoFile]
                       EXCEPT !["main.fz"] = files[CreateTempName]]
        /\ fpc' = "idle"
        /\ fresult' = "ok"
        /\ frozen' = TRUE
  /\ UNCHANGED <<freezelog, freezes, fprev, cvars, lvars, kvars, bvars>>

\* replacefile.ReplaceFile(dst, src, backup, 0): the replacement takes the
\* place of main.fz in one step and the old main.fz is kept as backup.fz, or
\* the call fails and nothing has changed.
ReplaceFile ==
  [[[files EXCEPT ![CreateTempName] = NoFile]
       EXCEPT !["backup.fz"] = files["main.fz"]]
       EXCEPT !["main.fz"] = files[CreateTempName]]

\* line 110: main.fz exists: replacefile.ReplaceFile(dst, src, backup, 0)
FreezeReplace ==
  /\ fpc = "replace" /\ files["main.fz"] # NoFile
  /\ \/ FreezeFails /\ UNCHANGED <<files, frozen>>
     \/ /\ files' = ReplaceFile
        /\ fpc' = "idle"
        /\ fresult' = "ok"
        /\ frozen' = TRUE
  /\ UNCHANGED <<freezelog, freezes, fprev, cvars, lvars, kvars, bvars>>

\* The process is killed inside freezeToFile; the files stay as they are
\* and the server starts again.
FreezeCrash ==
  /\ fpc # "idle"
  /\ fpc' = "idle"
  /\ fresult' = "crash"
  /\ UNCHANGED <<files, freezelog, freezes, fprev, frozen, cvars,
                 lvars, kvars, bvars>>

freezeToFile ==
  \/ FreezeCall \/ FreezeCloseLog \/ FreezeServer \/ FreezeCreateTemp
  \/ FreezeMarshal \/ FreezeWrite \/ FreezeSync \/ FreezeClose
  \/ FreezeRename \/ FreezeReplace

FreezeNext == freezeToFile \/ FreezeCrash

\* ---- the datagrams the codec is run on
Alphabet == {0, 1, 8, 32, 42, 128}

RECURSIVE SeqsUpTo(_)
SeqsUpTo(n) ==
  IF n = 0 THEN {<<>>}
  ELSE LET shorter == SeqsUpTo(n - 1)
       IN shorter \cup {Append(s, b) : s \in {t \in shorter : Len(t) = n - 1},
                                        b \in Alphabet}

\* 12 bytes: four bytes, then a timestamp of eight
PingBodies ==
  {pre \o <<t>> \o Zeros(7) : pre \in {<<0, 0, 0, 0>>, <<0, 0, 1, 0>>},
                              t \in {0, 7}}

\* three floats: 1.0, 0.0, 2.0
Positional == <<0, 0, 128, 63, 0, 0, 0, 0, 0, 0, 0, 64>>

\* Voice datagrams: a first byte of kind and target, a second byte, a frame
\* number, frames in the CELT or the Opus shape, and what may follow them
VoiceDatagrams ==
  {<<h, t>> \o fr \o body \o tail :
     h \in {0, 31, 69, 96, 128, 159},
     t \in {0, 31},
     fr \in {<<3>>, <<128, 200>>},
     body \in {<<1, 170>>, <<129, 170, 1, 187>>, <<129, 170, 0>>,
               <<160, 1, 170>>, <<0>>},
     tail \in {<<>>, Positional, <<0, 0>>}}

Datagrams24 == {p \o Zeros(12) : p \in PingBodies}

Inputs ==
  SeqsUpTo(MaxLen) \cup PingBodies \cup {<<32>> \o p : p \in PingBodies}
    \cup Datagrams24 \cup VoiceDatagrams

\* what the receive buffer may hold behind the datagram
Spares == {<<>>, <<85, 85>>}

CodecIdle ==
  /\ dgram = <<>> /\ backing = <<>> /\ legacyClient = TRUE
  /\ kpc = "idle"
  /\ parsed = NothingParsed
  /\ out = <<>>
  /\ reparsed = NothingParsed

CodecInit ==
  /\ dgram \in Inputs /\ backing \in Spares /\ legacyClient \in BOOLEAN
  /\ kpc = "input"
  /\ parsed = NothingParsed
  /\ out = <<>>
  /\ reparsed = NothingParsed

\* client.go line 344: the datagram is parsed
Parse ==
  /\ kpc = "input"
  /\ parsed' = ParseUDPPacket(dgram, backing, legacyClient)
  /\ kpc' = "parsed"
  /\ UNCHANGED <<dgram, backing, legacyClient, out, reparsed, cvars,
                 lvars, fvars, bvars>>

\* the packet emits itself in the format it came in
Emit ==
  /\ kpc = "parsed" /\ parsed.pkt.kind \in {"ping", "audio"}
  /\ out' = IF parsed.legacy THEN LegacyData(parsed.pkt)
                              ELSE ProtobufData(parsed.pkt)
  /\ kpc' = "emitted"
  /\ UNCHANGED <<dgram, backing, legacyClient, parsed, reparsed,
                 cvars, lvars, fvars, bvars>>

\* the emission is parsed in the same format
Reparse ==
  /\ kpc = "emitted"
  /\ reparsed' = ParseUDPPacket(out, EmissionSpare(parsed.pkt, parsed.legacy),
                                parsed.legacy)
  /\ kpc' = "reparsed"
  /\ UNCHANGED <<dgram, backing, legacyClient, parsed, out, cvars,
                 lvars, fvars, bvars>>

CodecNext == Parse \/ Emit \/ Reparse

\* ------------------------------ src/tlsserver.go: the ban table (DbTx)
\* A ban: the virtual server it belongs to and the name banned (the other
\* columns are carried along like the name).
ServerIDs == {1, 2}
BanNames == {"a", "b"}
Bans == [ServerID : ServerIDs, Name : BanNames]

\* the lists BanWrite is called with
BanLists == UNION {[1..n -> Bans] : n \in 0..MaxBans}
\* the pages BanRead is asked for
Limits == {1, 2}
Offsets == {0, 1}

NoWrite == [ok |-> FALSE, list |-> <<>>]
NoRead == [ok |-> FALSE, sid |-> 0, limit |-> 0, offset |-> 0, bans |-> <<>>,
           count |-> 0, wrote |-> NoWrite]

\* The table as the migration leaves it, before the transaction's first call.
BanInit ==
  /\ banRows = <<>> /\ banWritten = NoWrite /\ banRead = NoRead /\ banOps = 0

\* WHERE server_id = ?
OfServer(rows, sid) == SelectSeq(rows, LAMBDA b : b.ServerID = sid)

\* LIMIT ? OFFSET ? on the rows of a query
LimitOffset(rows, limit, offset) ==
  SubSeq(rows, offset + 1,
         IF Len(rows) < offset + limit THEN Len(rows) ELSE offset + limit)

\* Count on the statement Find has run: count(*) is selected with the
\* statement's WHERE, LIMIT and OFFSET, so the one row that holds the number
\* is itself subject to the offset; with no row the count is the number of
\* rows the query gave, zero.
Count(rows, limit, offset) ==
  IF LimitOffset(<<Len(rows)>>, limit, offset) = <<>>
    THEN 0
    ELSE LimitOffset(<<Len(rows)>>, limit, offset)[1]

\* DbTx.BanRead(sid, limit, offset)
BanRead ==
  /\ banOps < MaxBanOps
  /\ \E sid \in ServerIDs, limit \in Limits, offset \in Offsets, err \in BOOLEAN :
       banRead' =
         IF err
           THEN [NoRead EXCEPT !.sid = sid, !.limit = limit, !.offset = offset,
                               !.wrote = banWritten]
           ELSE [ok |-> TRUE, sid |-> sid, limit |-> limit, offset |-> offset,
                 bans |-> LimitOffset(OfServer(banRows, sid), limit, offset),
                 count |-> Count(OfServer(banRows, sid), limit, offset),
                 wrote |-> banWritten]
  /\ banOps' = banOps + 1
  /\ UNCHANGED <<banRows, banWritten, cvars, lvars, fvars, kvars>>

\* DbTx.BanWrite(bans): every row of the table is deleted, then the list is
\* inserted; Create refuses an empty list.
BanWrite ==
  /\ banOps < MaxBanOps
  /\ \E list \in BanLists, err \in BOOLEAN :
       IF err
         THEN /\ banWritten' = [ok |-> FALSE, list |-> list]
              /\ UNCHANGED banRows
         ELSE /\ banRows' = list
              /\ banWritten' = [ok |-> list # <<>>, list |-> list]
  /\ banOps' = banOps + 1
  /\ UNCHANGED <<banRead, cvars, lvars, fvars, kvars>>

BanNext == BanRead \/ BanWrite

\* ------------------------------------------------------- specifications
ClientNext ==
  tlsRecvLoop \/ authenticate \/ otherTask \/ udpRecvLoop \/ SockDeliver

\* The peer of a run: the datagrams it sends.
PingOnly == {<<1, 8, 7>>}

Init ==
  /\ ClientInit /\ offered = PingOnly
  /\ LockIdle /\ FreezeInit /\ CodecIdle /\ BanInit

Next == ClientNext

Spec == Init /\ [][Next]_vars

LockSpecInit ==
  /\ LockInit /\ ClientInit /\ offered = PingOnly
  /\ FreezeInit /\ CodecIdle /\ BanInit

LockSpec == LockSpecInit /\ [][LockNext]_vars

FreezeSpecInit ==
  /\ FreezeInit /\ ClientInit /\ offered = PingOnly
  /\ LockIdle /\ CodecIdle /\ BanInit

FreezeSpec == FreezeSpecInit /\ [][FreezeNext]_vars

CodecSpecInit ==
  /\ CodecInit /\ ClientInit /\ offered = PingOnly
  /\ LockIdle /\ FreezeInit /\ BanInit

CodecSpec == CodecSpecInit /\ [][CodecNext]_vars

\* A client no other task disconnects, with a peer that sends every kind of
\* datagram.
UdpSpecInit ==
  /\ ClientInit /\ offered = Payloads
  /\ LockIdle /\ FreezeInit /\ CodecIdle /\ BanInit

\* One transaction on the ban table.
BanSpecInit ==
  /\ BanInit /\ ClientInit /\ offered = PingOnly
  /\ LockIdle /\ FreezeInit /\ CodecIdle

BanSpec == BanSpecInit /\ [][BanNext]_vars

UdpNext == tlsRecvLoop \/ authenticate \/ udpRecvLoop \/ SockDeliver

UdpSpec == UdpSpecInit /\ [][UdpNext]_vars

\* Every goroutine that can take a step eventually takes one.
FairSpec ==
  /\ Spec
  /\ WF_vars(tlsRecvLoop) /\ WF_vars(authenticate)
  /\ WF_vars(otherTask) /\ WF_vars(udpRecvLoop) /\ WF_vars(SockDeliver)

\* A client that direct UDP does not reach: all its datagrams come through
\* the tunnel.  Every goroutine that can take a step eventually takes one.
TunnelNext == tlsRecvLoop \/ authenticate \/ udpRecvLoop

TunnelFairSpec ==
  /\ UdpSpecInit /\ [][TunnelNext]_vars
  /\ WF_vars(tlsRecvLoop) /\ WF_vars(authenticate) /\ WF_vars(udpRecvLoop)

\* --------------------------------------------------------------- claims

\* C1: disconnection is idempotent. For any sequence of calls of Disconnect,
\* ForceDisconnect, Panic or Panicf on one client (no two of them at the same
\* time), once a call has ended the client is disconnected and RemoveClient,
\* the close of udprecv, the close of the transport and updateCodecVersions
\* have each happened exactly once, however many calls follow.
C1_DisconnectIdempotent ==
  (callEnded /\ ~overlap) =>
    /\ disconnected
    /\ Len(removed) = 1
    /\ udprecv = "closed"
    /\ connCloses = 1
    /\ codecUpdates = 1

\* C2: the lifecycle state only advances by single forward steps, the
\* server's Version is written exactly once, in Connected and before
\* anything is read from the peer, and Disconnected is absorbing: after the
\* client is disconnected its state does not change and no message of it is
\* read or placed on the incoming queue.
C2_LifecycleForward ==
  [][ /\ state' # state => state' = state + 1
      /\ versionWrites' # versionWrites =>
           (state = StateClientConnected /\ versionWrites = 0 /\ nread = 0)
      /\ disconnected =>
           (state' = state /\ nread' = nread /\ incoming' = incoming) ]_vars

\* C3: a client disconnected while its receive task waits for the readiness
\* signal (in ClientSentVersion or Authenticated): the receive task is
\* eventually released and returns, and reads or enqueues nothing more.
C3_Blocked ==
  /\ pcRecv = "csvWait" /\ disconnected
  /\ state \in {StateClientSentVersion, StateClientAuthenticated}
  /\ \E t \in Tasks : dpc[t] \in {"rm", "udp", "rdy"}

C3_ReleasedOnDisconnect ==
  /\ C3_Blocked ~> (pcRecv = "done")
  /\ [][ (disconnected /\ pcRecv \in {"csvWait", "csvWoke"}) =>
           /\ nread' = nread /\ incoming' = incoming
           /\ pcRecv' \in {"csvWait", "csvWoke", "done"} ]_vars

\* C4: the lock file gives mutual exclusion: until ReleaseLockFile is
\* called at most one call of AcquireLockFile has returned nil; and a caller
\* that read the pid of a live process got ErrLocked.
C4_LockMutualExclusion ==
  /\ ~released => Cardinality({p \in Procs : lpc[p] = "held"}) <= 1
  /\ \A p \in Procs :
       (lpc[p] \in {"temp", "rename", "held"} /\ IsPid(lread[p]))
         => \A q \in lread[p] : ~Alive(q)

\* C5: at every moment of a freeze, a completed one, a failed one or one cut
\* short by a crash, main.fz holds either the whole snapshot it held when the
\* freeze began or the whole new snapshot, never a part of one; it is absent
\* only while no freeze has succeeded; a freeze that returns nil leaves the
\* new snapshot and a freeze that returns an error leaves the earlier one.
C5_FreezeAtomic ==
  /\ files["main.fz"] \in {NoFile} \cup {Full(g) : g \in 1..MaxFreezes}
  /\ files["main.fz"] = NoFile => ~frozen
  /\ freezes > 0 => files["main.fz"] \in {fprev, Full(freezes)}
  /\ fresult = "ok" => files["main.fz"] = Full(freezes)
  /\ fresult = "err" => files["main.fz"] = fprev

\* A second freeze has replaced the first snapshot, which is now the backup,
\* and the third has failed after writing a part of its temporary file.
C5_Witness ==
  /\ files["main.fz"] = Full(2) /\ files["backup.fz"] = Full(1)
  /\ files["tmp"] = Partial(3) /\ fresult \in {"err", "crash"}

\* C6: the packet parsed from a packet's own emission, made and parsed in
\* the format the packet came in, is the packet again: the same kind, codec,
\* target or context, frame number, terminator flag, payload and positional
\* data (and, of a ping, timestamp and request flag), in the same format.
C6_RoundTrip ==
  kpc = "reparsed" =>
    /\ reparsed.legacy = parsed.legacy
    /\ reparsed.pkt.kind = parsed.pkt.kind
    /\ reparsed.pkt.UsedCodec = parsed.pkt.UsedCodec
    /\ reparsed.pkt.TargetOrContext = parsed.pkt.TargetOrContext
    /\ reparsed.pkt.FrameNumber = parsed.pkt.FrameNumber
    /\ reparsed.pkt.IsTerminator = parsed.pkt.IsTerminator
    /\ reparsed.pkt.Payload = parsed.pkt.Payload
    /\ reparsed.pkt.PositionalData = parsed.pkt.PositionalData
    /\ reparsed.pkt.Timestamp = parsed.pkt.Timestamp
    /\ reparsed.pkt.RequestExtendedInformation = parsed.pkt.RequestExtendedInformation

\* C7: in the length-delimited framing a datagram the parser accepts is a
\* ping when its first byte is 0 and audio when it is 1, and ProtobufData
\* puts 0 in front of a ping and 1 in front of an audio packet.
C7_LengthDelimitedTags ==
  /\ (kpc \in {"parsed", "emitted", "reparsed"} /\ ~legacyClient
        /\ parsed.pkt.kind \in {"ping", "audio"}) =>
       /\ dgram[1] = 0 => parsed.pkt.kind = "ping"
       /\ dgram[1] = 1 => parsed.pkt.kind = "audio"
  /\ (kpc \in {"emitted", "reparsed"} /\ ~parsed.legacy) =>
       out[1] = (IF parsed.pkt.kind = "ping" THEN 0 ELSE 1)

\* C8: a legacy voice datagram the parser accepts has the codec its first
\* byte's top three bits select and the target that byte's low five bits
\* give, and its frame number is read from the bytes right behind that byte.
C8_LegacyVoiceHeader ==
  (kpc \in {"parsed", "emitted", "reparsed"} /\ legacyClient /\ parsed.legacy
     /\ parsed.pkt.kind = "audio") =>
    /\ LegacyKind(parsed.pkt.UsedCodec) = dgram[1] \div 32
    /\ parsed.pkt.TargetOrContext = dgram[1] % 32
    /\ parsed.pkt.FrameNumber = GetUint64(Tail(dgram), NewCursor)[1]

\* C9: a datagram of 12 or of 24 bytes whose first four bytes are zero is
\* parsed, whatever isLegacy says, as a legacy extended ping: a ping with
\* the request flag set and the timestamp of bytes 4..11, legacy = true.
C9_ExtendedPing ==
  (kpc \in {"parsed", "emitted", "reparsed"} /\ Len(dgram) \in {12, 24}
     /\ SubSeq(dgram, 1, 4) = <<0, 0, 0, 0>>) =>
    /\ parsed.pkt.kind = "ping"
    /\ parsed.pkt.RequestExtendedInformation
    /\ parsed.pkt.Timestamp = LittleEndian(SubSeq(dgram, 5, 12))
    /\ parsed.legacy

\* C10: with isLegacy true the parser answers legacy = false only for a
\* datagram whose first byte is the length-delimited ping tag and whose
\* other bytes parse as a length-delimited ping; a datagram with that first
\* byte whose other bytes do not parse so is parsed by the legacy rules.
C10_InteropConditional ==
  (kpc \in {"parsed", "emitted", "reparsed"} /\ legacyClient /\ Len(dgram) >= 1) =>
    /\ ~parsed.legacy => (dgram[1] = UDPPacketPing /\ parsed.pkt.kind = "ping")
    /\ (dgram[1] = UDPPacketPing
          /\ parsePingPacketProtobuf(Tail(dgram)).kind # "ping") =>
         parsed = ParseLegacy(dgram, backing)

\* C11: SendUDP uses exactly one transport, the one client.udp names: with
\* udp true it sends one datagram of len(buf)+Overhead() bytes and writes
\* nothing to the control connection; with udp false it writes one UDPTunnel
\* frame (kind 1 in two bytes, the length in four, then buf) and sends no
\* datagram; and the echo of a ping or loopback frame that came through the
\* tunnel goes back through the tunnel.
C11_OneTransport ==
  [][ (pcUdp = "send" /\ pcUdp' # "send") =>
        /\ udp =>
             /\ udpSends' = Append(udpSends, Len(udpOut) + Overhead)
             /\ tunnelWrites' = tunnelWrites
        /\ (~udp /\ conn = "open") =>
             /\ tunnelWrites' =
                  Append(tunnelWrites, <<0, 1, 0, 0, 0, Len(udpOut)>> \o udpOut)
             /\ udpSends' = udpSends
        /\ udpVia = "tunnel" => udpSends' = udpSends ]_vars

C13_RefusedFrameDropped ==
  [][ (pcUdp = "got" /\ Len(udpBuf) > 0 /\ pcUdp' \notin {"got", "switch"}) =>
        /\ pcUdp' = "range"
        /\ UNCHANGED <<tunnelWrites, udpSends, voicebroadcast, disconnected,
                       dpc>> ]_vars

\* The target a voice datagram names: the low five bits of the first byte
\* in the legacy framing, the target field in the length-delimited one.
C14_Target ==
  IF udpPkt.legacy THEN udpBuf[1] % 32 ELSE udpPkt.pkt.TargetOrContext

\* C14: an audio datagram that udpRecvLoop accepts is dispatched one way
\* only: for target 31 it is handed to SendUDP and not placed on the voice
\* broadcast queue, for another target it is placed on that queue once and
\* not echoed; either way the packet dispatched has the session of the
\* client as its sender session.
C14_ExclusiveDispatch ==
  [][ (pcUdp = "switch" /\ pcUdp' # "switch" /\ udpPkt.pkt.kind = "audio") =>
        IF C14_Target = TargetServerLoopback
          THEN /\ pcUdp' = "send"
               /\ udpOut' = Data([udpPkt.pkt EXCEPT !.SenderSession = session],
                                 udpPkt.legacy)
               /\ voicebroadcast' = voicebroadcast
          ELSE /\ pcUdp' = "range"
               /\ voicebroadcast' =
                    Append(voicebroadcast,
                           [udpPkt.pkt EXCEPT !.SenderSession = session])
               /\ UNCHANGED <<tunnelWrites, udpSends, udpOut>> ]_vars

\* C17: a datagram of an unknown kind, and one its parser rejects, gives a
\* packet that udpRecvLoop finds equal to nil: the loop takes its "unable to
\* parse" branch, calls no method on the packet (so nothing panics), and
\* echoes and forwards nothing.
C17_RejectedIsNil ==
  [][ (pcUdp = "switch" /\ pcUdp' # "switch"
         /\ udpPkt.pkt.kind \in {"nil", "nilPing", "nilAudio"}) =>
        /\ udpExit' = "unparsed"
        /\ ~crashed'
        /\ UNCHANGED <<tunnelWrites, udpSends, voicebroadcast, udpOut>> ]_vars

\* C19: once client.disconnected is set nothing more is written to the
\* client's transport, by tlsRecvLoop's sendMessage or by SendUDP.
C19_NoWriteAfterDisconnect ==
  [][ disconnected =>
        /\ versionWrites' = versionWrites
        /\ tunnelWrites' = tunnelWrites
        /\ udpSends' = udpSends ]_vars

\* C20: the readiness hand-off is single-shot: under every interleaving of
\* the authentication handler, the receive loop's close after its wake-up
\* and a disconnect by another task, clientReady is never closed twice,
\* never closed once it is nil, and never sent on once it is closed.
C20_SingleShot ==
  panicked \notin {"close of closed clientReady", "close of nil clientReady",
                   "send on closed clientReady"}

\* C15: in a transaction, a BanRead(sid, limit, offset) that follows a
\* successful BanWrite(B) returns the bans of B that belong to server sid,
\* offset of them skipped and at most limit of them given, and a count that
\* is the number of all the bans stored for sid; so no ban of an earlier
\* BanWrite is returned.
C15_BanReadAfterWrite ==
  (banRead.ok /\ banRead.wrote.ok) =>
    /\ banRead.bans = LimitOffset(OfServer(banRead.wrote.list, banRead.sid),
                                  banRead.limit, banRead.offset)
    /\ banRead.count = Len(OfServer(banRead.wrote.list, banRead.sid))

\* C16: a BanWrite with the ban list of one virtual server leaves the bans
\* stored for every other virtual server as they were.
C16_ServerScoped ==
  [][ \A s, o \in ServerIDs :
        (/\ banWritten' # banWritten /\ banWritten'.ok
         /\ o # s
         /\ \A i \in 1..Len(banWritten'.list) :
              banWritten'.list[i].ServerID = s)
        => OfServer(banRows', o) = OfServer(banRows, o) ]_vars

\* The length field of a legacy Opus datagram: its value and the cursor
\* behind it, in the bytes parseAudioPacketLegacy reads the frame number from.
C18_LengthField ==
  GetUint16(Tail(Tail(dgram)), GetUint64(Tail(Tail(dgram)), NewCursor)[2])

\* C18: a legacy Opus voice datagram is never sliced out of range, and when
\* it is accepted, with N the low 13 bits of its length field, the packet's
\* Payload is the N bytes right behind the length field and IsTerminator is
\* bit 13 of the length field.
C18_LegacyOpusPayload ==
  (kpc \in {"parsed", "emitted", "reparsed"} /\ legacyClient /\ parsed.legacy
     /\ Len(dgram) > 0 /\ dgram[1] \div 32 = UDPMessageVoiceOpus) =>
    /\ parsed.pkt.kind # "panic"
    /\ parsed.pkt.kind = "audio" =>
         /\ parsed.pkt.Payload =
              SubSeq(Tail(Tail(dgram)), C18_LengthField[2].off + 1,
                     C18_LengthField[2].off + (C18_LengthField[1] % 8192))
         /\ parsed.pkt.IsTerminator = ((C18_LengthField[1] \div 8192) % 2 = 1)

\* C21: udpRecvLoop gets a zero-length buffer from udprecv only when
\* disconnect has closed the channel: the loop of a client that is still
\* connected does not exit on an empty datagram, in particular not on one
\* tlsRecvLoop handed it, the payload of a UDPTunnel frame of length 0.
C21_EmptyOnlyWhenClosed ==
  [][ (udpExit' = "empty" /\ udpExit # "empty" /\ udpVia = "tunnel") =>
        (udprecv = "closed" /\ disconnected) ]_vars

\* C22: the first disconnect of a client, with no other call at the same
\* time, runs to completion from every lifecycle state: its close of
\* clientReady never fails, so it goes on to close the transport and to
\* trigger updateCodecVersions.
C22_FirstDisconnectCompletes ==
  [][ \A t \in Tasks :
        (dpc[t] = "rdy" /\ ~overlap) =>
          /\ panicked' \notin {"close of nil clientReady",
                               "close of closed clientReady"}
          /\ dpc'[t] # dpc[t] => dpc'[t] = "conn" ]_vars

\* C23: when two tasks call disconnect on one client at the same time the
\* teardown is still executed once: RemoveClient is called at most once,
\* udprecv is closed at most once (no close of the closed channel) and the
\* transport is closed at most once.
C23_TeardownOnce ==
  /\ Len(removed) <= 1
  /\ connCloses <= 1
  /\ codecUpdates <= 1
  /\ panicked # "close of closed udprecv"

\* C24: no task sends on udprecv once disconnect has closed it: a UDPTunnel
\* message tlsRecvLoop has read is not sent on the closed channel.
C24_NoSendOnClosed ==
  [][ (pcRecv = "rdSend" /\ udprecv = "closed") =>
        (pcRecv' = "rdSend" /\ panicked' # "send on closed udprecv") ]_vars

\* tlsRecvLoop of a Ready client that has not been disconnected is at its
\* send of a UDPTunnel payload on udprecv (line 460), in a running process.
C25_HandingOver ==
  /\ pcRecv = "rdSend" /\ state = StateClientReady
  /\ ~disconnected /\ ~crashed

\* C25: every UDPTunnel datagram tlsRecvLoop hands to udprecv for a Ready
\* client that has not been disconnected is eventually received by
\* udpRecvLoop, so that tlsRecvLoop goes on reading, whatever happened to
\* the client's earlier datagrams.
C25_TunnelReceived ==
  C25_HandingOver ~> (pcRecv # "rdSend" \/ disconnected \/ crashed)

====
